---- MODULE Spec2Model ----
(***************************************************************************)
(* A model of package errors (errors.go): the container type, New/NewF,    *)
(* Prefix/PrefixF, AddStack, Cause, Equals, container.Error,               *)
(* container.Format and the stack capture routine.                         *)
(*                                                                         *)
(* Go strings are sequences of runes; a rune is a one-element TLA+ string. *)
(* The three box-drawing runes of Format are written "<bar>", "<tee>" and  *)
(* "<ell>" (U+2502, U+251C, U+2514) and "<dash>" (U+2500).                 *)
(* An error value is a reference: nil, a plain error (identified by its    *)
(* index in plains, as a pointer identifies an *errorString), or a         *)
(* *container (its index in conts).                                        *)
(***************************************************************************)
EXTENDS Integers, Sequences, FiniteSets, TLC

VARIABLES plains, conts, log, last

vars == <<plains, conts, log, last>>

----------------------------------------------------------------------------
(* Bounds of the model. *)

MaxHeap == 4
MaxDepth == 14

----------------------------------------------------------------------------
(* Strings used as inputs. *)

S_hello == <<"h", "e", "l", "l", "o">>
S_quote == <<"a", "\"", "\\">>
S_yoo == <<"y", "o", "o">>
S_yooFmt == <<"y", "o", "o", " ", "%", "s">>
S_awooo == <<"a", "w", "o", "o", "o">>
S_sep == <<":", " ">>
S_runtimeDir == <<"r", "u", "n", "t", "i", "m", "e", "/">>

----------------------------------------------------------------------------
(* References. *)

Nil == [kind |-> "nil", id |-> 0]
PlainRef(i) == [kind |-> "plain", id |-> i]
ContRef(i) == [kind |-> "cont", id |-> i]

Refs ==
    {Nil} \cup {PlainRef(i) : i \in DOMAIN plains}
          \cup {ContRef(i) : i \in DOMAIN conts}

IsContainer(err) == err.kind = "cont"

----------------------------------------------------------------------------
(* strings.Contains, fmt.Sprintf (%s with string operands), %d and %q. *)

Contains(s, substr) ==
    \E i \in 1..(Len(s) - Len(substr) + 1) :
        SubSeq(s, i, i + Len(substr) - 1) = substr

RECURSIVE Concat(_)
Concat(ss) == IF ss = <<>> THEN <<>> ELSE Head(ss) \o Concat(Tail(ss))

S_missing == <<"%", "!", "s", "(", "M", "I", "S", "S", "I", "N", "G", ")">>
S_extraOpen == <<"%", "!", "(", "E", "X", "T", "R", "A", " ">>
S_stringEq == <<"s", "t", "r", "i", "n", "g", "=">>

RECURSIVE ExtraArgs(_, _)
ExtraArgs(a, n) ==
    IF n > Len(a) THEN <<>>
    ELSE S_stringEq \o a[n]
         \o (IF n < Len(a) THEN <<",", " ">> ELSE <<>>)
         \o ExtraArgs(a, n + 1)

RECURSIVE SprintfFrom(_, _, _, _)
SprintfFrom(format, a, i, argNum) ==
    IF i > Len(format)
    THEN IF argNum < Len(a)
         THEN S_extraOpen \o ExtraArgs(a, argNum + 1) \o <<")">>
         ELSE <<>>
    ELSE IF format[i] = "%" /\ i < Len(format) /\ format[i + 1] = "s"
         THEN IF argNum < Len(a)
              THEN a[argNum + 1] \o SprintfFrom(format, a, i + 2, argNum + 1)
              ELSE S_missing \o SprintfFrom(format, a, i + 2, argNum)
         ELSE <<format[i]>> \o SprintfFrom(format, a, i + 1, argNum)

Sprintf(format, a) == SprintfFrom(format, a, 1, 0)

Digit(d) == <<"0", "1", "2", "3", "4", "5", "6", "7", "8", "9">>[d + 1]

RECURSIVE Itoa(_)
Itoa(n) == IF n < 10 THEN <<Digit(n)>> ELSE Itoa(n \div 10) \o <<Digit(n % 10)>>

RECURSIVE Escape(_)
Escape(s) ==
    IF s = <<>> THEN <<>>
    ELSE (IF Head(s) \in {"\"", "\\"} THEN <<"\\", Head(s)>> ELSE <<Head(s)>>)
         \o Escape(Tail(s))

Quote(s) == <<"\"">> \o Escape(s) \o <<"\"">>

----------------------------------------------------------------------------
(* Call frames.  A goroutine's call stack is a sequence of frames, the     *)
(* innermost first.  The frames of the calling program are inputs.         *)

F_errors == <<"e", "/", "e", "r", "r", "o", "r", "s", ".", "g", "o">>
F_main == <<"a", "p", "p", "/", "m", "a", "i", "n", ".", "g", "o">>
F_svc == <<"a", "p", "p", "/", "s", "v", "c", ".", "g", "o">>
F_scheme == <<"p", "k", "g", "/", "r", "u", "n", "t", "i", "m", "e", "/", "s", "c", "h", "e", "m", "e", ".", "g", "o">>
F_proc == <<"r", "u", "n", "t", "i", "m", "e", "/", "p", "r", "o", "c", ".", "g", "o">>
F_asm == <<"r", "u", "n", "t", "i", "m", "e", "/", "a", "s", "m", ".", "s">>

N_stack == <<"e", "r", "r", "o", "r", "s", ".", "s", "t", "a", "c", "k">>
N_newErr == <<"e", "r", "r", "o", "r", "s", ".", "n", "e", "w", "E", "r", "r">>
N_New == <<"e", "r", "r", "o", "r", "s", ".", "N", "e", "w">>
N_NewF == <<"e", "r", "r", "o", "r", "s", ".", "N", "e", "w", "F">>
N_Prefix == <<"e", "r", "r", "o", "r", "s", ".", "P", "r", "e", "f", "i", "x">>
N_PrefixF == <<"e", "r", "r", "o", "r", "s", ".", "P", "r", "e", "f", "i", "x", "F">>
N_addPrefix == <<"e", "r", "r", "o", "r", "s", ".", "a", "d", "d", "P", "r", "e", "f", "i", "x">>
N_AddStack == <<"e", "r", "r", "o", "r", "s", ".", "A", "d", "d", "S", "t", "a", "c", "k">>
N_main == <<"m", "a", "i", "n", ".", "m", "a", "i", "n">>
N_run == <<"s", "v", "c", ".", "R", "u", "n">>
N_add == <<"r", "u", "n", "t", "i", "m", "e", ".", "A", "d", "d">>
N_rtmain == <<"r", "u", "n", "t", "i", "m", "e", ".", "m", "a", "i", "n">>
N_goexit == <<"r", "u", "n", "t", "i", "m", "e", ".", "g", "o", "e", "x", "i", "t">>

Frame(function, file, line) == [line |-> line, file |-> file, function |-> function]

(* The library's own frames, innermost first, for each public entry point. *)
LibFrames ==
    [ New      |-> << Frame(N_stack, F_errors, 252), Frame(N_newErr, F_errors, 118),
                      Frame(N_New, F_errors, 104) >>,
      NewF     |-> << Frame(N_stack, F_errors, 252), Frame(N_newErr, F_errors, 118),
                      Frame(N_NewF, F_errors, 112) >>,
      Prefix   |-> << Frame(N_stack, F_errors, 252), Frame(N_addPrefix, F_errors, 153),
                      Frame(N_Prefix, F_errors, 130) >>,
      PrefixF  |-> << Frame(N_stack, F_errors, 252), Frame(N_addPrefix, F_errors, 153),
                      Frame(N_PrefixF, F_errors, 138) >>,
      AddStack |-> << Frame(N_stack, F_errors, 252), Frame(N_AddStack, F_errors, 176) >> ]

LibFrameSet == UNION { {LibFrames[e][i] : i \in DOMAIN LibFrames[e]} : e \in DOMAIN LibFrames }

(* Frames of the Go runtime below main.main. *)
RtMain == Frame(N_rtmain, F_proc, 250)
RtExit == Frame(N_goexit, F_asm, 1650)
RuntimeFrames == {RtMain, RtExit}

(* Frames of the calling program.  UserAdd is a function of the calling    *)
(* program whose source file lies in a directory named runtime.            *)
UserMain == Frame(N_main, F_main, 12)
UserRun == Frame(N_run, F_svc, 36)
UserAdd == Frame(N_add, F_scheme, 7)

Repeat(f, n) == [i \in 1..n |-> f]

(* The call stacks, caller first, from which the entry points are called.  *)
Contexts ==
    [ main    |-> <<UserMain, RtMain, RtExit>>,
      nested  |-> <<UserRun, UserMain, RtMain, RtExit>>,
      deep    |-> Repeat(UserRun, MaxDepth) \o <<UserMain, RtMain, RtExit>>,
      indir   |-> <<UserAdd, UserMain, RtMain, RtExit>>,
      viadir  |-> <<UserRun, UserAdd, UserMain, RtMain, RtExit>> ]

CtxNames == DOMAIN Contexts

(* The goroutine's stack inside stack() when entry was called from ctx. *)
Chain(entry, ctx) == LibFrames[entry] \o Contexts[ctx]

----------------------------------------------------------------------------
(* stack: capture of the call stack. *)

PcBufLen == 16

(* runtime.Callers(1, pc): the frames from stack() outwards, as many as pc holds. *)
Callers(chain) == SubSeq(chain, 1, IF Len(chain) < PcBufLen THEN Len(chain) ELSE PcBufLen)

(* The loop over frames.Next(): stop at the first frame whose file contains *)
(* "runtime/", or after the last frame.                                     *)
RECURSIVE ScanFrom(_, _)
ScanFrom(frames, i) ==
    IF Contains(frames[i].file, S_runtimeDir) THEN <<>>
    ELSE <<frames[i]>> \o (IF i = Len(frames) THEN <<>> ELSE ScanFrom(frames, i + 1))

stack(skip, chain) ==
    LET scanned == ScanFrom(Callers(chain), 1)
    IN  IF Len(scanned) < skip THEN <<>>
        ELSE SubSeq(scanned, skip + 1, Len(scanned))

----------------------------------------------------------------------------
(* The operations.  Each yields the value returned and the heap after it:  *)
(* [ret, conts, plains].                                                   *)

Container(err, prefixes, stk) == [err |-> err, prefixes |-> prefixes, stack |-> stk]

newErr(msg, chain) ==
    [ ret    |-> ContRef(Len(conts) + 1),
      conts  |-> Append(conts, Container(PlainRef(Len(plains) + 1), <<>>, stack(3, chain))),
      plains |-> Append(plains, msg) ]

New(msg, chain) == newErr(msg, chain)

NewF(format, a, chain) == newErr(Sprintf(format, a), chain)

(* Variants of addPrefix: without the type switch, copying instead of     *)
(* mutating, prepending instead of appending, without the nil check.      *)
addPrefix_Wrap(err, prefix, chain) ==
    IF err = Nil
    THEN [ret |-> Nil, conts |-> conts, plains |-> plains]
    ELSE [ ret    |-> ContRef(Len(conts) + 1),
           conts  |-> Append(conts, Container(err, <<prefix>>, stack(3, chain))),
           plains |-> plains ]

addPrefix_Copy(err, prefix, chain) ==
    IF err = Nil
    THEN [ret |-> Nil, conts |-> conts, plains |-> plains]
    ELSE IF ~IsContainer(err)
         THEN [ ret    |-> ContRef(Len(conts) + 1),
                conts  |-> Append(conts, Container(err, <<prefix>>, stack(3, chain))),
                plains |-> plains ]
         ELSE [ ret    |-> ContRef(Len(conts) + 1),
                conts  |-> Append(conts,
                             Container(conts[err.id].err,
                                       Append(conts[err.id].prefixes, prefix),
                                       conts[err.id].stack)),
                plains |-> plains ]

addPrefix_Prepend(err, prefix, chain) ==
    IF err = Nil
    THEN [ret |-> Nil, conts |-> conts, plains |-> plains]
    ELSE IF ~IsContainer(err)
         THEN [ ret    |-> ContRef(Len(conts) + 1),
                conts  |-> Append(conts, Container(err, <<prefix>>, stack(3, chain))),
                plains |-> plains ]
         ELSE [ ret    |-> err,
                conts  |-> [conts EXCEPT ![err.id].prefixes = <<prefix>> \o @],
                plains |-> plains ]

addPrefix_NoNilCheck(err, prefix, chain) ==
    IF ~IsContainer(err)
    THEN [ ret    |-> ContRef(Len(conts) + 1),
           conts  |-> Append(conts, Container(err, <<prefix>>, stack(3, chain))),
           plains |-> plains ]
    ELSE [ ret    |-> err,
           conts  |-> [conts EXCEPT ![err.id].prefixes = Append(@, prefix)],
           plains |-> plains ]

addPrefix(err, prefix, chain) ==
    IF err = Nil
    THEN [ret |-> Nil, conts |-> conts, plains |-> plains]
    ELSE IF ~IsContainer(err)
         THEN [ ret    |-> ContRef(Len(conts) + 1),
                conts  |-> Append(conts, Container(err, <<prefix>>, stack(3, chain))),
                plains |-> plains ]
         ELSE [ ret    |-> err,
                conts  |-> [conts EXCEPT ![err.id].prefixes = Append(@, prefix)],
                plains |-> plains ]

Prefix(err, prefix, chain) == addPrefix(err, prefix, chain)

PrefixF(err, format, a, chain) == addPrefix(err, Sprintf(format, a), chain)

(* A variant of AddStack that captures a new stack for a container too. *)
AddStack_Replace(err, chain) ==
    IF err = Nil
    THEN [ret |-> Nil, conts |-> conts, plains |-> plains]
    ELSE IF ~IsContainer(err)
         THEN [ ret    |-> ContRef(Len(conts) + 1),
                conts  |-> Append(conts, Container(err, <<>>, stack(2, chain))),
                plains |-> plains ]
         ELSE [ ret    |-> err,
                conts  |-> [conts EXCEPT ![err.id].stack = stack(2, chain)],
                plains |-> plains ]

AddStack(err, chain) ==
    IF err = Nil
    THEN [ret |-> Nil, conts |-> conts, plains |-> plains]
    ELSE IF ~IsContainer(err)
         THEN [ ret    |-> ContRef(Len(conts) + 1),
                conts  |-> Append(conts, Container(err, <<>>, stack(2, chain))),
                plains |-> plains ]
         ELSE [ret |-> err, conts |-> conts, plains |-> plains]

(* A variant of Cause that does not unwrap. *)
Cause_NoUnwrap(err) == IF err = Nil THEN Nil ELSE err

Cause(err) ==
    IF err = Nil THEN Nil
    ELSE IF ~IsContainer(err) THEN err
         ELSE conts[err.id].err

(* A variant of Equals that compares the messages of the causes. *)
Equals_ByMessage(err1, err2) ==
    LET m(e) == IF Cause(e) = Nil THEN <<"nil">> ELSE plains[Cause(e).id]
    IN  m(err1) = m(err2)

Equals(err1, err2) == Cause(err1) = Cause(err2)

(* The message of an error value: errorString.Error for a plain error. *)
RECURSIVE ErrorOf(_)
RECURSIVE PrefixesFrom(_, _)
PrefixesFrom(prefixes, i) ==
    IF i > Len(prefixes) THEN <<>>
    ELSE prefixes[i] \o S_sep \o PrefixesFrom(prefixes, i + 1)

Error(e) == PrefixesFrom(conts[e.id].prefixes, 1) \o ErrorOf(conts[e.id].err)

ErrorOf(err) == IF IsContainer(err) THEN Error(err) ELSE plains[err.id]

(* container.Format: what is written to the fmt.State for each verb. *)
S_errorHdr == <<"E", "r", "r", "o", "r", ":", " ">>
S_rule == <<"\n", " ", " ", "<bar>", "\n">>
S_tee == <<"<tee>", "<dash>", " ">>
S_ell == <<"<ell>", "<dash>", " ">>

(* A variant of FormatBlock whose test for the last frame is off by one. *)
FormatBlock_NeverLast(stk, i) ==
    LET f == stk[i]
        start == IF i - 1 = Len(stk) THEN S_ell ELSE S_tee
        fileStart == IF i - 1 = Len(stk) THEN " " ELSE "<bar>"
    IN  <<" ", " ">> \o start \o <<"(">> \o f.function \o <<")", "\n">>
        \o <<" ", " ", fileStart, " ", " ", " ", " ", " ">> \o f.file
        \o <<":">> \o Itoa(f.line) \o <<"\n">>
        \o <<" ", " ", fileStart, "\n">>

FormatBlock(stk, i) ==
    LET f == stk[i]
        start == IF i - 1 = Len(stk) - 1 THEN S_ell ELSE S_tee
        fileStart == IF i - 1 = Len(stk) - 1 THEN " " ELSE "<bar>"
    IN  <<" ", " ">> \o start \o <<"(">> \o f.function \o <<")", "\n">>
        \o <<" ", " ", fileStart, " ", " ", " ", " ", " ">> \o f.file
        \o <<":">> \o Itoa(f.line) \o <<"\n">>
        \o <<" ", " ", fileStart, "\n">>

RECURSIVE FormatBlocksFrom(_, _)
FormatBlocksFrom(stk, i) ==
    IF i > Len(stk) THEN <<>>
    ELSE FormatBlock(stk, i) \o FormatBlocksFrom(stk, i + 1)

Format(e, verb) ==
    CASE verb = "v" -> S_errorHdr \o Error(e) \o S_rule
                       \o FormatBlocksFrom(conts[e.id].stack, 1)
      [] verb = "s" -> ErrorOf(conts[e.id].err)
      [] verb = "q" -> Quote(ErrorOf(conts[e.id].err))
      [] OTHER      -> <<>>

----------------------------------------------------------------------------
(* The record of the last call and the history of each container.          *)
(* last: the operation called last, its operands and what it returned.     *)
(* log[i]: for container i, the call that created it, the operand of that  *)
(* call, the plain error it was created for, the calling context, and the  *)
(* texts of the Prefix/PrefixF calls made on it, in call order.            *)

NoCall ==
    [ op |-> "none", a |-> Nil, b |-> Nil, text |-> <<>>, format |-> <<>>,
      args |-> <<>>, verb |-> "", ret |-> Nil, out |-> <<>>,
      eq |-> FALSE ]

Hist(err) == IF IsContainer(err) THEN log[err.id].texts ELSE <<>>

Root(err) == IF IsContainer(err) THEN log[err.id].origin ELSE err

LogAfter(op, err, text, ctx, r) ==
    IF Len(r.conts) > Len(conts)
    THEN Append(log,
           [ by     |-> op,
             from   |-> err,
             origin |-> IF op \in {"New", "NewF"} THEN PlainRef(Len(plains) + 1)
                        ELSE Root(err),
             texts  |-> IF op \in {"Prefix", "PrefixF"} THEN Hist(err) \o <<text>>
                        ELSE Hist(err),
             ctx    |-> ctx ])
    ELSE IF op \in {"Prefix", "PrefixF"} /\ IsContainer(err)
         THEN [log EXCEPT ![err.id].texts = Append(@, text)]
         ELSE log

RECURSIVE TotalPrefixes(_)
TotalPrefixes(cs) ==
    IF cs = <<>> THEN 0 ELSE Len(Head(cs).prefixes) + TotalPrefixes(Tail(cs))

----------------------------------------------------------------------------
(* Inputs.  Aliasing: several error values side by side, few texts.        *)
(* Rendering: one container at a time, every text, verb and calling        *)
(* context.                                                                *)

Aliasing ==
    [ msgs   |-> {S_hello},
      texts  |-> {S_yoo},
      fmts   |-> { <<S_yooFmt, <<S_awooo>> >> },
      ctxs   |-> {"main", "nested"},
      verbs  |-> {"s"},
      single |-> FALSE ]

Rendering ==
    [ msgs   |-> {S_hello, S_quote},
      texts  |-> {S_yoo},
      fmts   |-> { <<S_yooFmt, <<S_awooo>> >>, <<S_yooFmt, <<>> >>,
                   <<S_yoo, <<S_awooo>> >> },
      ctxs   |-> CtxNames \ {"main"},
      verbs  |-> {"v", "s", "q", "d"},
      single |-> TRUE ]

(* The values allocated so far: error values and prefix strings. *)
HeapSize(ps, cs) == Len(ps) + Len(cs) + TotalPrefixes(cs)

Bounded(r, I) ==
    /\ HeapSize(r.plains, r.conts) <= MaxHeap
    /\ I.single => Len(r.conts) <= 1 /\ Len(r.plains) <= 1

Commit(r, I) == Bounded(r, I) /\ conts' = r.conts /\ plains' = r.plains

----------------------------------------------------------------------------
(* The state machine. *)

Init ==
    /\ plains = <<>>
    /\ conts = <<>>
    /\ log = <<>>
    /\ last = NoCall

(* errors.New of the standard library, called by the program. *)
CallStdNew(I) ==
    \E msg \in I.msgs :
        /\ HeapSize(plains, conts) < MaxHeap
        /\ I.single => plains = <<>>
        /\ plains' = Append(plains, msg)
        /\ last' = [NoCall EXCEPT !.op = "errors.New", !.text = msg,
                                  !.ret = PlainRef(Len(plains) + 1)]
        /\ UNCHANGED <<conts, log>>

CallNew(I) ==
    \E msg \in I.msgs, ctx \in I.ctxs :
        LET r == New(msg, Chain("New", ctx))
        IN  /\ Commit(r, I)
            /\ log' = LogAfter("New", Nil, msg, ctx, r)
            /\ last' = [NoCall EXCEPT !.op = "New", !.text = msg,
                                      !.ret = r.ret]

CallNewF(I) ==
    \E fa \in I.fmts, ctx \in I.ctxs :
        LET r == NewF(fa[1], fa[2], Chain("NewF", ctx))
        IN  /\ Commit(r, I)
            /\ log' = LogAfter("NewF", Nil, Sprintf(fa[1], fa[2]), ctx, r)
            /\ last' = [NoCall EXCEPT !.op = "NewF", !.format = fa[1],
                                      !.args = fa[2], !.ret = r.ret]

CallPrefix(I) ==
    \E err \in Refs, prefix \in I.texts, ctx \in I.ctxs :
        LET r == Prefix(err, prefix, Chain("Prefix", ctx))
        IN  /\ Commit(r, I)
            /\ log' = LogAfter("Prefix", err, prefix, ctx, r)
            /\ last' = [NoCall EXCEPT !.op = "Prefix", !.a = err, !.text = prefix,
                                      !.ret = r.ret]

CallPrefixF(I) ==
    \E err \in Refs, fa \in I.fmts, ctx \in I.ctxs :
        LET r == PrefixF(err, fa[1], fa[2], Chain("PrefixF", ctx))
        IN  /\ Commit(r, I)
            /\ log' = LogAfter("PrefixF", err, Sprintf(fa[1], fa[2]), ctx, r)
            /\ last' = [NoCall EXCEPT !.op = "PrefixF", !.a = err,
                                      !.text = Sprintf(fa[1], fa[2]),
                                      !.format = fa[1], !.args = fa[2],
                                      !.ret = r.ret]

CallAddStack(I) ==
    \E err \in Refs, ctx \in I.ctxs :
        LET r == AddStack(err, Chain("AddStack", ctx))
        IN  /\ Commit(r, I)
            /\ log' = LogAfter("AddStack", err, <<>>, ctx, r)
            /\ last' = [NoCall EXCEPT !.op = "AddStack", !.a = err,
                                      !.ret = r.ret]

CallCause ==
    \E err \in Refs :
        /\ last' = [NoCall EXCEPT !.op = "Cause", !.a = err, !.ret = Cause(err)]
        /\ UNCHANGED <<plains, conts, log>>

CallEquals ==
    \E err1 \in Refs, err2 \in Refs :
        /\ last' = [NoCall EXCEPT !.op = "Equals", !.a = err1, !.b = err2,
                                  !.eq = Equals(err1, err2)]
        /\ UNCHANGED <<plains, conts, log>>

CallError ==
    \E i \in DOMAIN conts :
        /\ last' = [NoCall EXCEPT !.op = "Error", !.a = ContRef(i),
                                  !.out = Error(ContRef(i))]
        /\ UNCHANGED <<plains, conts, log>>

CallFormat(I) ==
    \E i \in DOMAIN conts, verb \in I.verbs :
        /\ last' = [NoCall EXCEPT !.op = "Format", !.a = ContRef(i), !.verb = verb,
                                  !.out = Format(ContRef(i), verb)]
        /\ UNCHANGED <<plains, conts, log>>

NextOver(I) ==
    \/ CallStdNew(I)
    \/ CallNew(I)
    \/ CallNewF(I)
    \/ CallPrefix(I)
    \/ CallPrefixF(I)
    \/ CallAddStack(I)
    \/ CallCause
    \/ CallEquals
    \/ CallError
    \/ CallFormat(I)

Next == NextOver(Aliasing)

Spec == Init /\ [][Next]_vars

NextRendering == NextOver(Rendering)

SpecRendering == Init /\ [][NextRendering]_vars

----------------------------------------------------------------------------
(* Properties. *)

ContRefs == {ContRef(i) : i \in DOMAIN conts}

PrefixOps == {"Prefix", "PrefixF"}

(* C1: containers never nest.  In every reachable state the wrapped error  *)
(* of every container is a plain error of the heap, never a container and  *)
(* never nil, and no container was created by a call whose operand was a   *)
(* container.                                                              *)
C1_NoNesting ==
    \A i \in DOMAIN conts :
        /\ conts[i].err.kind = "plain"
        /\ conts[i].err.id \in DOMAIN plains
        /\ ~IsContainer(log[i].from)

(* Prefix or AddStack has just been applied to a container. *)
C1_Witness ==
    /\ last.op \in {"Prefix", "AddStack"}
    /\ IsContainer(last.a)
    /\ Len(conts) >= 1

(* What Cause returns in a state: a plain error itself, and for a          *)
(* container the plain error it was created for.                           *)
C2_CauseState ==
    /\ \A i \in DOMAIN plains : Cause(PlainRef(i)) = PlainRef(i)
    /\ \A i \in DOMAIN conts :
          /\ Cause(ContRef(i)) = log[i].origin
          /\ Cause(ContRef(i)).kind = "plain"
          /\ log[i].by \in {"Prefix", "PrefixF", "AddStack"}
                => Cause(ContRef(i)) = log[i].from
          /\ log[i].by \in {"New", "NewF"} => Cause(ContRef(i)) # ContRef(i)
    /\ last.op = "New" => plains[Cause(last.ret).id] = last.text
    /\ last.op = "Cause" /\ IsContainer(last.a) => last.ret = log[last.a.id].origin

(* A Prefix, PrefixF or AddStack call on a non-nil error returns a value    *)
(* with the Cause its operand had.                                         *)
C2_CauseStep ==
    (last'.op \in PrefixOps \cup {"AddStack"} /\ last'.a # Nil)
        => LET a == last'.a
               causeBefore == Cause(a)
           IN  Cause(last.ret)' = causeBefore

(* C2: the original error is preserved.  Cause of a plain error is that    *)
(* error; Cause of a container is the plain error it was created for (for  *)
(* New/NewF the error created inside, carrying the message given), reached *)
(* in one unwrap; and each Prefix, PrefixF or AddStack call on a non-nil   *)
(* error returns a value with the same Cause as its operand.               *)
C2_CausePreserved == [](C2_CauseState) /\ [][C2_CauseStep]_vars

(* A container made from a plain error has been annotated again and then   *)
(* passed to AddStack.                                                     *)
C2_Witness ==
    /\ last.op = "AddStack"
    /\ IsContainer(last.a)
    /\ log[last.a.id].by = "Prefix"
    /\ Len(conts[last.a.id].prefixes) >= 2

(* The effect of one Prefix or PrefixF call on a container. *)
C3_PrefixStep ==
    (last'.op \in PrefixOps /\ IsContainer(last'.a))
        => LET c == last'.a.id
           IN  /\ last'.ret = last'.a
               /\ Len(conts') = Len(conts)
               /\ conts'[c].prefixes = Append(conts[c].prefixes, last'.text)
               /\ conts'[c].stack = conts[c].stack
               /\ conts'[c].err = conts[c].err
               /\ \A j \in DOMAIN conts : j # c => conts'[j] = conts[j]
               /\ plains' = plains

(* C3: Prefix and PrefixF on a container mutate it in place.  The call     *)
(* returns the same container; its prefixes are the previous ones followed *)
(* by the text; its stack and error, every other container and every plain *)
(* error are unchanged, and no container is allocated.                     *)
C3_PrefixInPlace == [][C3_PrefixStep]_vars

(* PrefixF has been applied to a container that already had a prefix. *)
C3_Witness ==
    /\ last.op = "PrefixF"
    /\ IsContainer(last.a)
    /\ conts[last.a.id].prefixes = <<S_yoo, last.text>>
    /\ last.text # S_yoo

(* What any one step leaves alone, and the effect of AddStack on a         *)
(* container.                                                              *)
C4_StackStep ==
    /\ \A i \in DOMAIN conts :
          /\ i \in DOMAIN conts'
          /\ conts'[i].stack = conts[i].stack
          /\ conts'[i].err = conts[i].err
    /\ (last'.op = "AddStack" /\ IsContainer(last'.a))
          => /\ last'.ret = last'.a
             /\ conts' = conts
             /\ plains' = plains

(* C4: a stack is populated at most once.  No step changes the stack or    *)
(* the wrapped error of an existing container, and AddStack on a container *)
(* returns that container and changes nothing.                             *)
C4_StackOnce == [][C4_StackStep]_vars

(* AddStack has been applied to a container that AddStack made. *)
C4_Witness ==
    /\ last.op = "AddStack"
    /\ IsContainer(last.a)
    /\ log[last.a.id].by = "AddStack"
    /\ conts[last.a.id].stack # <<>>

(* C7: Equals compares the causes by identity.  For all error values of    *)
(* the heap, Equals holds exactly when both have the same original error   *)
(* (nil for nil); so nil equals nil, nothing else equals nil, containers   *)
(* from separate New/NewF calls are never equal whatever their messages, a *)
(* container equals itself, and a plain error equals every container made  *)
(* from it, as do two containers made from it.                             *)
C7_EqualsIdentity ==
    /\ \A e1 \in Refs, e2 \in Refs : Equals(e1, e2) <=> (Root(e1) = Root(e2))
    /\ Equals(Nil, Nil)
    /\ \A e \in Refs \ {Nil} : ~Equals(e, Nil) /\ ~Equals(Nil, e)
    /\ \A c \in ContRefs : Equals(c, c)
    /\ \A i \in DOMAIN conts, j \in DOMAIN conts :
          /\ (i # j /\ log[i].by \in {"New", "NewF"} /\ log[j].by \in {"New", "NewF"})
                => ~Equals(ContRef(i), ContRef(j))
          /\ (log[i].from # Nil /\ log[i].from = log[j].from)
                => Equals(ContRef(i), ContRef(j))
          /\ log[i].from # Nil
                => Equals(log[i].from, ContRef(i)) /\ Equals(ContRef(i), log[i].from)
    /\ last.op = "Equals" => (last.eq <=> (Root(last.a) = Root(last.b)))

(* Equals has been called on two containers from separate New calls with   *)
(* the same message.                                                       *)
C7_Witness ==
    /\ last.op = "Equals"
    /\ IsContainer(last.a) /\ IsContainer(last.b)
    /\ last.a # last.b
    /\ log[last.a.id].by = "New" /\ log[last.b.id].by = "New"
    /\ Error(last.a) = Error(last.b)
    /\ ~last.eq

(* The effect of one call on nil. *)
C8_NilStep ==
    (last'.op \in PrefixOps \cup {"AddStack", "Cause"} /\ last'.a = Nil)
        => /\ last'.ret = Nil
           /\ conts' = conts
           /\ plains' = plains

(* C8: nil propagates.  Prefix, PrefixF, AddStack and Cause called on nil  *)
(* return nil and change no container and no plain error.                  *)
C8_NilPropagates == [][C8_NilStep]_vars

(* PrefixF has been called on nil while a container exists. *)
C8_Witness ==
    /\ last.op = "PrefixF"
    /\ last.a = Nil
    /\ last.ret = Nil
    /\ conts # <<>>

----------------------------------------------------------------------------
(* Properties of the rendering and of the stack capture. *)

S_yooHello == <<"y", "o", "o", ":", " ", "h", "e", "l", "l", "o">>
S_yooAwoooHello ==
    <<"y", "o", "o", " ", "a", "w", "o", "o", "o", ":", " ", "h", "e", "l", "l", "o">>

(* The message of the original error of container i. *)
OriginalMsg(i) == plains[log[i].origin.id]

(* a1 + ": " + ... + an + ": " + m *)
RECURSIVE Rendered(_, _)
Rendered(texts, m) ==
    IF texts = <<>> THEN m
    ELSE Head(texts) \o <<":", " ">> \o Rendered(Tail(texts), m)

(* C6: the message of a container is its annotations, in the order of the  *)
(* Prefix/PrefixF calls, each followed by ": ", then the message of the    *)
(* original error; with no annotation it is that message.  "yoo" over      *)
(* "hello" renders "yoo: hello", and the format "yoo %s" with "awooo" over *)
(* "hello" renders "yoo awooo: hello".                                     *)
C6_RenderedMessage ==
    /\ \A i \in DOMAIN conts :
          /\ Error(ContRef(i)) = Rendered(log[i].texts, OriginalMsg(i))
          /\ log[i].texts = <<>> => Error(ContRef(i)) = OriginalMsg(i)
          /\ (log[i].texts = <<S_yoo>> /\ OriginalMsg(i) = S_hello)
                => Error(ContRef(i)) = S_yooHello
    /\ last.op = "New" => Error(last.ret) = last.text
    /\ (last.op = "PrefixF" /\ last.format = S_yooFmt /\ last.args = <<S_awooo>>
          /\ last.ret # Nil /\ OriginalMsg(last.ret.id) = S_hello
          /\ Len(log[last.ret.id].texts) = 1)
          => Error(last.ret) = S_yooAwoooHello
    /\ last.op = "Error"
          => last.out = Rendered(log[last.a.id].texts, OriginalMsg(last.a.id))

(* Error has been called on a container annotated by Prefix and then by    *)
(* PrefixF with another text.                                              *)
C6_Witness ==
    /\ last.op = "Error"
    /\ Len(log[last.a.id].texts) = 2
    /\ log[last.a.id].texts[1] = S_yoo
    /\ log[last.a.id].texts[2] # S_yoo
    /\ OriginalMsg(last.a.id) = S_hello

RECURSIVE Unescape(_)
Unescape(s) ==
    IF s = <<>> THEN <<>>
    ELSE IF Head(s) = "\\" /\ Len(s) >= 2
         THEN <<s[2]>> \o Unescape(SubSeq(s, 3, Len(s)))
         ELSE <<Head(s)>> \o Unescape(Tail(s))

Count(s, r) == Cardinality({k \in DOMAIN s : s[k] = r})

IsPrefixOf(p, s) == Len(p) <= Len(s) /\ SubSeq(s, 1, Len(p)) = p

(* One block of the full rendering, with the given connector. *)
Block(f, last_) ==
    <<" ", " ">> \o (IF last_ THEN <<"<ell>">> ELSE <<"<tee>">>) \o <<"<dash>", " ", "(">>
    \o f.function \o <<")", "\n", " ", " ">>
    \o (IF last_ THEN <<" ">> ELSE <<"<bar>">>)
    \o <<" ", " ", " ", " ", " ">> \o f.file \o <<":">> \o Itoa(f.line)
    \o <<"\n", " ", " ">> \o (IF last_ THEN <<" ">> ELSE <<"<bar>">>) \o <<"\n">>

RECURSIVE Blocks(_)
Blocks(stk) ==
    IF stk = <<>> THEN <<>>
    ELSE Block(Head(stk), Len(stk) = 1) \o Blocks(Tail(stk))

FullHeader(i) ==
    <<"E", "r", "r", "o", "r", ":", " ">> \o Error(ContRef(i))
    \o <<"\n", " ", " ", "<bar>", "\n">>

C5_StackNonEmpty ==
    /\ \A i \in DOMAIN conts : conts[i].stack # <<>>
    /\ last.op \in {"New", "NewF"} => conts[last.ret.id].prefixes = <<>>

FirstRuntime(ctx) ==
    IF \E k \in DOMAIN ctx : ctx[k] \in RuntimeFrames
    THEN CHOOSE k \in DOMAIN ctx :
             ctx[k] \in RuntimeFrames /\ \A j \in 1..(k - 1) : ctx[j] \notin RuntimeFrames
    ELSE Len(ctx) + 1

(* C10: the recorded stack of a container is the caller's view.  Its first *)
(* frame is the call site of the public entry point; it holds no frame of  *)
(* the library and no frame of the runtime; it is the calling context in   *)
(* outward order up to the first runtime frame, or up to the 16 frames     *)
(* scanned.                                                                *)
C10_CallerView ==
    \A i \in DOMAIN conts :
        LET ctx == Contexts[log[i].ctx]
            skip == Len(LibFrames[log[i].by])
            stk == conts[i].stack
            room == 16 - skip
            upto == FirstRuntime(ctx) - 1
        IN  /\ stk # <<>>
            /\ stk[1] = ctx[1]
            /\ \A k \in DOMAIN stk : stk[k] \notin LibFrameSet \cup RuntimeFrames
            /\ Len(stk) <= room
            /\ stk = SubSeq(ctx, 1, IF upto < room THEN upto ELSE room)

====
